---- MODULE Spec2Model ----
(***************************************************************************)
(* Record store coordination of if.u.service.                              *)
(*                                                                         *)
(* Two coordinators are modelled, each from its source:                    *)
(*   - PeopleStore (storage/people_store.py): SQL table `peoples` with a   *)
(*     soft-delete column, the vector index (utils/vsdb.py) and the object *)
(*     store (utils/obs.py).  Specification Spec.                          *)
(*   - CustomService (services/custom.py) over SqlAlchemyDB                *)
(*     (utils/rldb.py): table `customs`.  Specification SpecSvc; with the  *)
(*     two transactions of upsert as steps of threads, SpecThreads.        *)
(* The reads are examined on every table: SpecSearch, SpecIndexed,         *)
(* SpecQuery (PeopleStore) and SpecPplList (services/people.py).           *)
(***************************************************************************)
EXTENDS Integers, Sequences, FiniteSets, TLC

\* ---------------------------------------------------------------- bounds
\* largest value of the database clock (func.now())
MaxTime == 1
\* longest result list the vector index returns (top_k of the request)
MaxRank == 3

\* ids a caller supplies by itself, and the values uuid4().hex can yield
CallerIds == {"a"}
GenIds == {"u1"}
Ids == CallerIds \cup GenIds
\* ids of the rows of the tables on which the read operations are examined
TableIds == {"a", "b", "c"}
\* values of the structured field `name`
Names == {"A", "B"}

\* SQL NULL of the nullable column deleted_at
NULL == -1

VARIABLES
    peoples,   \* PeopleStore: table `peoples`, id -> row (physical rows)
    vs,        \* vector index: id -> document
    obs,       \* object store: path -> content
    customs,   \* CustomService: table `customs`, id -> row
    now,       \* database clock read by func.now()
    uuids,     \* values uuid4().hex has produced so far
    deleted,   \* history: ids of the records and users whose delete returned
    last,      \* the last call: its arguments and what it returned
    calls,     \* CustomService.save calls in progress, one per request thread
    kw,        \* keyword index (utils/kwdb.py): id -> content
    users,     \* UserService: table `users`, id -> row
    codes,     \* table `verification_codes`, id -> row
    tokens     \* table `user_tokens`, id -> row

vars == <<peoples, vs, obs, customs, now, uuids, deleted, last, calls, kw, users, codes, tokens>>

\* ------------------------------------------------------------ helpers
Min(x, y) == IF x <= y THEN x ELSE y

\* all orderings of a finite set: the orders in which .all() may return rows
PermsOf(S) ==
    {s \in [1..Cardinality(S) -> S] : \A i, j \in 1..Cardinality(S) : i # j => s[i] # s[j]}

\* all sequences over S of length at most n
SeqsUpTo(S, n) == UNION {[1..k -> S] : k \in 0..n}

ToSet(s) == {s[i] : i \in 1..Len(s)}

RECURSIVE Insert(_, _, _)
Insert(sorted, x, key) ==
    IF sorted = <<>> THEN <<x>>
    ELSE IF key[Head(sorted)] <= key[x]
         THEN <<Head(sorted)>> \o Insert(Tail(sorted), x, key)
         ELSE <<x>> \o sorted

\* list.sort(key=...): stable, ascending in key
RECURSIVE StableSort(_, _)
StableSort(s, key) ==
    IF s = <<>> THEN <<>>
    ELSE Insert(StableSort(SubSeq(s, 1, Len(s) - 1), key), s[Len(s)], key)

\* row of table `peoples` as the INSERT of save() leaves it
NewRow(name, t) ==
    [name |-> name, created_at |-> t, updated_at |-> t, deleted_at |-> NULL]

\* PeopleORM.to_people / from_rldb_model: the business object of a row
to_people(table, id) == [id |-> id, name |-> table[id].name]

\* the filter on deleted_at left out
LiveAll(table) == DOMAIN table

\* rows a query with deleted_at IS NULL can see
Live(table) == {id \in DOMAIN table : table[id].deleted_at = NULL}

\* People.to_vs_text: the document derived from the record
to_vs_text(name) == name

\* path of the snapshot of a record in the object store
DetailPath(id) == <<"peoples", id, "detail.json">>

\* keys of the object store under peoples/{id}/
KeysUnder(id) == {p \in DOMAIN obs : p[1] = "peoples" /\ p[2] = id}

\* Koodo.List("peoples/{id}/"): the keys under the prefix, each with the
\* prefix replaced by "" (item['key'].replace(prefix, ""))
Listed(id) == {SubSeq(p, 3, Len(p)) : p \in KeysUnder(id)}

Restrict(f, S) == [x \in S |-> f[x]]

\* the record of a call: op, the id argument (arg), the id the call worked
\* on (id), the field value or filter argument (val), the list the index
\* answered with (ranked), the backends that failed during the call (faults),
\* the clock at the call (t), whether it returned normally (ok), the error
\* otherwise (err), the id returned (ret) and the records returned (out);
\* for a page read the page asked for (limit, offset) and the listed values
\* of a list-valued filter (among); for a delete the number of rows the
\* UPDATE matched (rows) and the keys the object store listed (keys)
NoCall ==
    [op |-> "init", arg |-> "", id |-> "", val |-> "", ranked |-> <<>>,
     faults |-> {}, t |-> 0, ok |-> TRUE, err |-> "", ret |-> "", out |-> <<>>,
     limit |-> 0, offset |-> 0, among |-> {}, rows |-> 0, keys |-> {}]

Returned(r) == r @@ [NoCall EXCEPT !.t = now]

\* request threads that run CustomService.save at the same time
Callers == {"p1", "p2"}

\* a thread that has no call in progress and has made none
Idle == [pc |-> "idle", id |-> "", val |-> "", existed |-> FALSE,
         ok |-> TRUE, err |-> "", faults |-> {}]

\* ------------------------------------------------------------ reads
\* PeopleStore.find
find(id) ==
    IF id \in Live(peoples)
    THEN [ok |-> TRUE, out |-> <<to_people(peoples, id)>>]
    ELSE [ok |-> FALSE, out |-> <<>>]

\* rows matching filter_by(**conds): cond = "" is the empty filter
Matching(table, cond) ==
    {id \in Live(table) : cond = "" \/ table[id].name = cond}

\* PeopleStore.query, dbOrder being the order in which the database
\* yields the matching rows (the statement has no ORDER BY)
query(cond, limit, offset, dbOrder) ==
    LET page == SubSeq(dbOrder, offset + 1, Min(offset + limit, Len(dbOrder)))
        key == [id \in DOMAIN peoples |-> 0 - peoples[id].created_at]
        sorted == StableSort(page, key)
    IN [i \in 1..Len(sorted) |-> to_people(peoples, sorted[i])]

\* the batch load without its filter on deleted_at
LoadedAll(people_id_list) ==
    {id \in DOMAIN peoples : id \in ToSet(people_id_list)}

\* the rows the batch load of search() selects
Loaded(people_id_list) ==
    {id \in Live(peoples) : id \in ToSet(people_id_list)}

\* search() without the final sort by rank: the rows stay in created_at order
search_by_created(ranked, loadOrder) ==
    LET byCreated == StableSort(loadOrder,
                        [id \in DOMAIN peoples |-> 0 - peoples[id].created_at])
    IN [i \in 1..Len(byCreated) |-> to_people(peoples, byCreated[i])]

\* search() that takes the fields of a record from the index entry
search_from_index(ranked, loadOrder) ==
    LET people_id_list == SelectSeq(ranked, LAMBDA x : x # "")
        byCreated == StableSort(loadOrder,
                        [id \in DOMAIN peoples |-> 0 - peoples[id].created_at])
        order_map == [pid \in ToSet(people_id_list) |->
                        CHOOSE i \in 1..Len(people_id_list) :
                            /\ people_id_list[i] = pid
                            /\ \A j \in 1..Len(people_id_list) :
                                   people_id_list[j] = pid => j <= i]
        people_orms == StableSort(byCreated, order_map)
    IN [i \in 1..Len(people_orms) |->
           IF people_orms[i] \in DOMAIN vs
           THEN [id |-> people_orms[i], name |-> vs[people_orms[i]]]
           ELSE to_people(peoples, people_orms[i])]

\* search() that loads one record for every hit of the index
search_per_hit(ranked, loadOrder) ==
    LET hits == SelectSeq(ranked, LAMBDA x : x \in Live(peoples))
    IN [i \in 1..Len(hits) |-> to_people(peoples, hits[i])]

\* PeopleStore.search after vsdb.search returned `ranked`; loadOrder is the
\* order in which the batch load yields the rows
search(ranked, loadOrder) ==
    LET people_id_list == SelectSeq(ranked, LAMBDA x : x # "")
        byCreated == StableSort(loadOrder,
                        [id \in DOMAIN peoples |-> 0 - peoples[id].created_at])
        order_map == [pid \in ToSet(people_id_list) |->
                        CHOOSE i \in 1..Len(people_id_list) :
                            /\ people_id_list[i] = pid
                            /\ \A j \in 1..Len(people_id_list) :
                                   people_id_list[j] = pid => j <= i]
        people_orms == StableSort(byCreated, order_map)
    IN [i \in 1..Len(people_orms) |-> to_people(peoples, people_orms[i])]

\* ------------------------------------------------------------ Init
Init ==
    /\ peoples = <<>>
    /\ vs = <<>>
    /\ obs = <<>>
    /\ customs = <<>>
    /\ now = 0
    /\ uuids = {}
    /\ deleted = {}
    /\ last = NoCall
    /\ calls = [p \in Callers |-> Idle]
    /\ kw = <<>>
    /\ users = <<>>
    /\ codes = <<>>
    /\ tokens = <<>>

\* the database clock advances between calls
Tick ==
    /\ now < MaxTime
    /\ now' = now + 1
    /\ UNCHANGED <<peoples, vs, obs, customs, uuids, deleted, last, calls, kw, users, codes, tokens>>

\* ------------------------------------------------------------ PeopleStore
\* step 0 of save() for every input
StoreNewIdAlways(inId) == GenIds \ uuids

\* people.id = people.id if people.id else uuid.uuid4().hex: the ids step 0
\* of save can assign (uuid4 yields a value it has not yielded before)
StoreNewId(inId) == IF inId # "" THEN {inId} ELSE GenIds \ uuids

SaveCall(id, inId, name) == [op |-> "save", arg |-> inId, id |-> id, val |-> name]

\* save(): session.commit() raises (I/O error or primary key conflict)
SaveSqlRaises(id, inId, name, sqlOk) ==
    /\ last' = Returned([ok |-> FALSE, err |-> "sql",
                         faults |-> IF sqlOk THEN {} ELSE {"sql"}]
                        @@ SaveCall(id, inId, name))
    /\ UNCHANGED <<peoples, vs, obs>>

\* save(): the row is committed, then vsdb.insert raises, or returns [] and
\* save raises "insert failed"
SaveVsRaises(id, inId, name) ==
    /\ peoples' = (id :> NewRow(name, now)) @@ peoples
    /\ last' = Returned([ok |-> FALSE, err |-> "vs", faults |-> {"vs"}]
                        @@ SaveCall(id, inId, name))
    /\ UNCHANGED <<vs, obs>>

\* save(): row committed, document indexed, snapshot uploaded unless obs.Put
\* failed (Put then returns "" and save goes on); the id is returned
SaveReturns(id, inId, name, obsOk) ==
    /\ peoples' = (id :> NewRow(name, now)) @@ peoples
    /\ vs' = (id :> to_vs_text(name)) @@ vs
    /\ obs' = IF obsOk THEN (DetailPath(id) :> name) @@ obs ELSE obs
    /\ last' = Returned([ret |-> id, faults |-> IF obsOk THEN {} ELSE {"obs"}]
                        @@ SaveCall(id, inId, name))

\* save() that logs a failed index write and goes on
SaveAsDegraded(id, inId, name, sqlOk, vsRes, obsOk) ==
    IF ~sqlOk \/ id \in DOMAIN peoples
    THEN SaveSqlRaises(id, inId, name, sqlOk)
    ELSE IF vsRes # "ok"
    THEN /\ peoples' = (id :> NewRow(name, now)) @@ peoples
         /\ obs' = IF obsOk THEN (DetailPath(id) :> name) @@ obs ELSE obs
         /\ last' = Returned([ret |-> id, faults |-> {"vs"}]
                             @@ SaveCall(id, inId, name))
         /\ UNCHANGED vs
    ELSE SaveReturns(id, inId, name, obsOk)

\* save() that writes the index before the row is committed
SaveAsIndexFirst(id, inId, name, sqlOk, vsRes, obsOk) ==
    IF ~sqlOk \/ id \in DOMAIN peoples
    THEN /\ vs' = (id :> to_vs_text(name)) @@ vs
         /\ last' = Returned([ok |-> FALSE, err |-> "sql",
                              faults |-> IF sqlOk THEN {} ELSE {"sql"}]
                             @@ SaveCall(id, inId, name))
         /\ UNCHANGED <<peoples, obs>>
    ELSE IF vsRes # "ok"
    THEN SaveVsRaises(id, inId, name)
    ELSE SaveReturns(id, inId, name, obsOk)

\* save() that raises when obs.Put fails
SaveAsPutFatal(id, inId, name, sqlOk, vsRes, obsOk) ==
    IF ~sqlOk \/ id \in DOMAIN peoples
    THEN SaveSqlRaises(id, inId, name, sqlOk)
    ELSE IF vsRes # "ok"
    THEN SaveVsRaises(id, inId, name)
    ELSE IF ~obsOk
    THEN /\ peoples' = (id :> NewRow(name, now)) @@ peoples
         /\ vs' = (id :> to_vs_text(name)) @@ vs
         /\ last' = Returned([ok |-> FALSE, err |-> "obs", faults |-> {"obs"}]
                             @@ SaveCall(id, inId, name))
         /\ UNCHANGED obs
    ELSE SaveReturns(id, inId, name, obsOk)

\* save() whose INSERT replaces a row that has the id
SaveAsOverwrite(id, inId, name, sqlOk, vsRes, obsOk) ==
    IF ~sqlOk
    THEN SaveSqlRaises(id, inId, name, sqlOk)
    ELSE IF vsRes # "ok"
    THEN SaveVsRaises(id, inId, name)
    ELSE SaveReturns(id, inId, name, obsOk)

\* PeopleStore.save(people) with people.id = inId and people.name = name,
\* id being the id assigned in step 0.
\*   sqlOk : the database accepts the commit
\*   vsRes : what vsdb.insert does: "ok", "raise", or "empty" (returns [])
\*   obsOk : whether the upload of obs.Put succeeds
SaveAs(id, inId, name, sqlOk, vsRes, obsOk) ==
    IF ~sqlOk \/ id \in DOMAIN peoples
    THEN SaveSqlRaises(id, inId, name, sqlOk)
    ELSE IF vsRes # "ok"
    THEN SaveVsRaises(id, inId, name)
    ELSE SaveReturns(id, inId, name, obsOk)

StoreSave ==
    \E inId \in CallerIds \cup uuids \cup {""}, name \in Names,
       sqlOk \in BOOLEAN, vsRes \in {"ok", "raise", "empty"}, obsOk \in BOOLEAN :
        \E id \in StoreNewId(inId) :
            /\ SaveAs(id, inId, name, sqlOk, vsRes, obsOk)
            /\ uuids' = IF inId = "" THEN uuids \cup {id} ELSE uuids
            /\ UNCHANGED <<customs, now, deleted, calls, kw, users, codes, tokens>>

\* delete() that never calls vsdb.delete
DeleteAsKeepIndex(id, sqlOk, vsOk, listOk, delOk) ==
    LET call == [op |-> "delete", arg |-> id, id |-> id,
                 rows |-> IF id \in Live(peoples) THEN 1 ELSE 0]
    IN
    IF ~sqlOk
    THEN /\ last' = Returned([ok |-> FALSE, err |-> "sql",
                              faults |-> {"sql"}] @@ call)
         /\ UNCHANGED <<peoples, vs, obs, deleted>>
    ELSE /\ peoples' = [x \in DOMAIN peoples |->
                          IF x = id /\ peoples[x].deleted_at = NULL
                          THEN [peoples[x] EXCEPT !.deleted_at = now,
                                                  !.updated_at = now]
                          ELSE peoples[x]]
         /\ obs' = IF listOk /\ delOk
                   THEN Restrict(obs, DOMAIN obs \ Listed(id)) ELSE obs
         /\ last' = Returned([ok |-> listOk,
                              err |-> IF listOk THEN "" ELSE "obs",
                              keys |-> IF listOk THEN Listed(id) ELSE {},
                              faults |-> IF ~listOk THEN {"obs_list"}
                                         ELSE IF delOk \/ Listed(id) = {}
                                         THEN {} ELSE {"obs"}] @@ call)
         /\ deleted' = IF listOk /\ id \in DOMAIN peoples
                       THEN deleted \cup {id} ELSE deleted
         /\ UNCHANGED vs

\* PeopleStore.delete(people_id)
\*   sqlOk  : the database accepts the UPDATE and commit
\*   vsOk   : ChromaDB.delete removed the entry (it returns False otherwise)
\*   listOk : bucket.list answered (ret is None otherwise)
\*   delOk  : bucket.delete removed the key (Del returns False otherwise)
\* rows is the number of rows the UPDATE matched, keys the keys obs.List
\* returned; obs.Del is called with each of them as the path.
DeleteAs(id, sqlOk, vsOk, listOk, delOk) ==
    LET call == [op |-> "delete", arg |-> id, id |-> id,
                 rows |-> IF id \in Live(peoples) THEN 1 ELSE 0]
        vsFault == IF vsOk THEN {} ELSE {"vs"}
    IN
    IF ~sqlOk
    THEN /\ last' = Returned([ok |-> FALSE, err |-> "sql",
                              faults |-> {"sql"}] @@ call)
         /\ UNCHANGED <<peoples, vs, obs, deleted>>
    ELSE /\ peoples' = [x \in DOMAIN peoples |->
                          IF x = id /\ peoples[x].deleted_at = NULL
                          THEN [peoples[x] EXCEPT !.deleted_at = now,
                                                  !.updated_at = now]
                          ELSE peoples[x]]
         /\ vs' = IF vsOk THEN Restrict(vs, DOMAIN vs \ {id}) ELSE vs
         /\ IF ~listOk
            THEN \* ret['items'] on None raises
                 /\ last' = Returned([ok |-> FALSE, err |-> "obs",
                           faults |-> vsFault \cup {"obs_list"}] @@ call)
                 /\ UNCHANGED <<obs, deleted>>
            ELSE \* obs.Del(key) for every key obs.List returned
                 /\ obs' = IF delOk
                           THEN Restrict(obs, DOMAIN obs \ Listed(id))
                           ELSE obs
                 /\ last' = Returned([keys |-> Listed(id),
                               faults |-> vsFault \cup
                               (IF delOk \/ Listed(id) = {}
                                THEN {} ELSE {"obs"})] @@ call)
                 /\ deleted' = IF id \in DOMAIN peoples
                               THEN deleted \cup {id} ELSE deleted

StoreDelete ==
    \E id \in Ids, sqlOk \in BOOLEAN, vsOk \in BOOLEAN,
       listOk \in BOOLEAN, delOk \in BOOLEAN :
        /\ DeleteAs(id, sqlOk, vsOk, listOk, delOk)
        /\ UNCHANGED <<customs, now, uuids, calls, kw, users, codes, tokens>>

\* PeopleStore.find(people_id)
StoreFind ==
    \E id \in Ids :
        /\ last' = Returned([op |-> "find", arg |-> id, id |-> id,
                             ok |-> find(id).ok,
                             err |-> IF find(id).ok THEN "" ELSE "not found",
                             out |-> find(id).out])
        /\ UNCHANGED <<peoples, vs, obs, customs, now, uuids, deleted, calls, kw, users, codes, tokens>>

\* page sizes and offsets a caller asks for
DefaultLimit == 10
Limits == {1, DefaultLimit}
Offsets == {0, 1}

\* PeopleStore.query(conds, limit, offset)
StoreQuery ==
    \E cond \in {""} \cup Names, limit \in Limits, offset \in Offsets :
        \E dbOrder \in PermsOf(Matching(peoples, cond)) :
            /\ last' = Returned([op |-> "query", val |-> cond,
                                 limit |-> limit, offset |-> offset,
                                 out |-> query(cond, limit, offset, dbOrder)])
            /\ UNCHANGED <<peoples, vs, obs, customs, now, uuids, deleted, calls, kw, users, codes, tokens>>

\* search() that answers a failing index with the first page of query()
StoreSearchFallback ==
    \/ \E dbOrder \in PermsOf(Matching(peoples, "")) :
           /\ last' = Returned([op |-> "search", faults |-> {"vs"},
                                out |-> query("", DefaultLimit, 0, dbOrder)])
           /\ UNCHANGED <<peoples, vs, obs, customs, now, uuids, deleted, calls, kw, users, codes, tokens>>
    \/ \E ranked \in SeqsUpTo(TableIds, MaxRank) :
           \E loadOrder \in PermsOf(Loaded(ranked)) :
               /\ last' = Returned([op |-> "search", ranked |-> ranked,
                                    out |-> search(ranked, loadOrder)])
               /\ UNCHANGED <<peoples, vs, obs, customs, now, uuids, deleted, calls, kw, users, codes, tokens>>

\* PeopleStore.search: vsdb.search either raises or returns a ranked list
StoreSearch ==
    \/ /\ last' = Returned([op |-> "search", ok |-> FALSE, err |-> "vs",
                             faults |-> {"vs"}])
       /\ UNCHANGED <<peoples, vs, obs, customs, now, uuids, deleted, calls, kw, users, codes, tokens>>
    \/ \E ranked \in SeqsUpTo(TableIds, MaxRank) :
           \E loadOrder \in PermsOf(Loaded(ranked)) :
               /\ last' = Returned([op |-> "search", ranked |-> ranked,
                                    out |-> search(ranked, loadOrder)])
               /\ UNCHANGED <<peoples, vs, obs, customs, now, uuids, deleted, calls, kw, users, codes, tokens>>

\* PeopleStore: the write path and find.  No step of the write path reads a
\* timestamp, so the clock stands still here; the reads that order rows by
\* created_at are examined on tables with every combination of timestamps
\* (SpecSearch, SpecQuery).
Next ==
    \/ StoreSave
    \/ StoreDelete
    \/ StoreFind

Spec == Init /\ [][Next]_vars

\* ------------------------------------------------------------ read paths
\* rows a table can hold for one id: never deleted, or soft-deleted
TableRows ==
    {[name |-> n, created_at |-> c, updated_at |-> IF d = NULL THEN c ELSE d,
      deleted_at |-> d] :
        n \in Names, c \in 0..MaxTime, d \in {NULL} \cup 0..MaxTime}

\* tables `peoples` that saves and deletes can leave behind
Tables ==
    UNION {{t \in [S -> TableRows] :
              \A id \in S : t[id].deleted_at \in {NULL, t[id].created_at}} :
           S \in SUBSET TableIds}

InitRead ==
    /\ peoples \in Tables
    /\ vs = <<>>
    /\ obs = <<>>
    /\ customs = <<>>
    /\ now = MaxTime
    /\ uuids = {}
    /\ deleted = {}
    /\ last = NoCall
    /\ calls = [p \in Callers |-> Idle]
    /\ kw = <<>>
    /\ users = <<>>
    /\ codes = <<>>
    /\ tokens = <<>>

\* PeopleStore.search on every table
NextSearch == StoreSearch

SpecSearch == InitRead /\ [][NextSearch]_vars

\* tables whose rows were all created at the same time
TablesOfOneTime == {t \in Tables : \A id \in DOMAIN t : t[id].created_at = 0}

\* The index is a store of its own, written once when a record is saved:
\* the document it holds for an id need not be what the row holds now (the
\* table is shared with PeopleService and can be rewritten in the database).
InitIndexed ==
    /\ peoples \in TablesOfOneTime
    /\ vs \in [DOMAIN peoples -> Names]
    /\ obs = <<>>
    /\ customs = <<>>
    /\ now = MaxTime
    /\ uuids = {}
    /\ deleted = {}
    /\ last = NoCall
    /\ calls = [p \in Callers |-> Idle]
    /\ kw = <<>>
    /\ users = <<>>
    /\ codes = <<>>
    /\ tokens = <<>>

\* PeopleStore.search on every table and every content of the index
NextIndexed == StoreSearch

SpecIndexed == InitIndexed /\ [][NextIndexed]_vars

\* PeopleStore.query on every table
NextQuery == StoreQuery

SpecQuery == InitRead /\ [][NextQuery]_vars

\* ------------------------------------------------------------ CustomService
\* SqlAlchemyDB.get on table `customs`
rldb_get(id) == id \in Live(customs)

\* SqlAlchemyDB.query on a table; a limit or offset of 0 is not applied.
\* dbOrder is the order in which the database yields the rows.
rldb_query_table(table, limit, offset, dbOrder) ==
    LET from == IF offset # 0 THEN offset + 1 ELSE 1
        to == IF limit # 0 THEN Min(from - 1 + limit, Len(dbOrder)) ELSE Len(dbOrder)
        page == SubSeq(dbOrder, from, to)
        key == [id \in DOMAIN table |-> 0 - table[id].created_at]
        results == StableSort(page, key)
    IN [i \in 1..Len(results) |-> to_people(table, results[i])]

\* SqlAlchemyDB.query on table `customs`
rldb_query(cond, limit, offset, dbOrder) ==
    rldb_query_table(customs, limit, offset, dbOrder)

\* a merge that issues the UPDATE whether or not a column value differs
MergedTouch(row, name, t) == [row EXCEPT !.name = name, !.updated_at = t]

\* session.merge(data) followed by commit: the columns the object carries
\* overwrite the row; the UPDATE (and with it onupdate=func.now()) is
\* issued only when some column value differs
Merged(row, name, t) ==
    IF row.name = name THEN row
    ELSE [row EXCEPT !.name = name, !.updated_at = t]

\* SqlAlchemyDB.upsert(data): TRUE when it raises
UpsertRaises(id, sqlOk) ==
    \/ ~sqlOk
    \/ (~rldb_get(id) /\ id \in DOMAIN customs)

\* an upsert that leaves an existing row as it is
UpsertedKeep(id, name) ==
    IF rldb_get(id) THEN customs ELSE (id :> NewRow(name, now)) @@ customs

\* the table after SqlAlchemyDB.upsert(data) committed
Upserted(id, name) ==
    IF rldb_get(id)
    THEN [customs EXCEPT ![id] = Merged(customs[id], name, now)]
    ELSE (id :> NewRow(name, now)) @@ customs

\* custom.id = custom.id if custom.id else uuid.uuid4().hex
SvcNewId(inId) == IF inId # "" THEN {inId} ELSE GenIds \ uuids

\* CustomService.save(custom) with custom.id = inId, custom.name = name
SvcSaveAs(id, inId, name, sqlOk) ==
    LET call == [op |-> "save", arg |-> inId, id |-> id, val |-> name]
    IN
    IF UpsertRaises(id, sqlOk)
    THEN /\ last' = Returned([ok |-> FALSE, err |-> "RLDB_ERROR",
                              faults |-> IF sqlOk THEN {} ELSE {"sql"}] @@ call)
         /\ UNCHANGED customs
    ELSE /\ customs' = Upserted(id, name)
         /\ last' = Returned([ret |-> id] @@ call)

SvcSave ==
    \E inId \in CallerIds \cup uuids \cup {""}, name \in Names, sqlOk \in BOOLEAN :
        \E id \in SvcNewId(inId) :
            /\ SvcSaveAs(id, inId, name, sqlOk)
            /\ uuids' = IF inId = "" THEN uuids \cup {id} ELSE uuids
            /\ UNCHANGED <<peoples, vs, obs, now, deleted, calls, kw, users, codes, tokens>>

\* the error CustomService.delete returns
DeleteError(id, sqlOk) ==
    IF ~sqlOk THEN "RLDB_ERROR"
    ELSE IF ~rldb_get(id) THEN "RLDB_NOT_FOUND"
    ELSE ""

\* CustomService.delete(custom_id): SqlAlchemyDB.delete removes the row
SvcDelete ==
    \E id \in Ids, sqlOk \in BOOLEAN :
        /\ last' = Returned([op |-> "delete", arg |-> id, id |-> id,
                             ok |-> DeleteError(id, sqlOk) = "",
                             err |-> DeleteError(id, sqlOk),
                             faults |-> IF sqlOk THEN {} ELSE {"sql"}])
        /\ customs' = IF DeleteError(id, sqlOk) = ""
                      THEN Restrict(customs, DOMAIN customs \ {id})
                      ELSE customs
        /\ UNCHANGED <<peoples, vs, obs, now, uuids, deleted, calls, kw, users, codes, tokens>>

\* what CustomService.get(custom_id) returns
svc_get(id) ==
    IF rldb_get(id)
    THEN [ok |-> TRUE, err |-> "", out |-> <<to_people(customs, id)>>]
    ELSE [ok |-> FALSE, err |-> "RLDB_NOT_FOUND", out |-> <<>>]

\* CustomService.get(custom_id)
SvcGet ==
    \E id \in Ids :
        /\ last' = Returned([op |-> "get", arg |-> id, id |-> id,
                             ok |-> svc_get(id).ok, err |-> svc_get(id).err,
                             out |-> svc_get(id).out])
        /\ UNCHANGED <<peoples, vs, obs, customs, now, uuids, deleted, calls, kw, users, codes, tokens>>

\* CustomService.list(conds, limit, offset)
SvcList ==
    \E cond \in {""} \cup Names, limit \in Limits, offset \in Offsets :
        \E dbOrder \in PermsOf(Matching(customs, cond)) :
            /\ last' = Returned([op |-> "list", val |-> cond,
                                 limit |-> limit, offset |-> offset,
                                 out |-> rldb_query(cond, limit, offset, dbOrder)])
            /\ UNCHANGED <<peoples, vs, obs, customs, now, uuids, deleted, calls, kw, users, codes, tokens>>

NextSvc ==
    \/ Tick
    \/ SvcSave
    \/ SvcDelete
    \/ SvcGet
    \/ SvcList

SpecSvc == Init /\ [][NextSvc]_vars

\* ------------------------------------------------ CustomService, threads
\* SqlAlchemyDB.upsert is two transactions: the lookup of get() that sets
\* `existed`, then a session of its own for merge or add and the commit.
\* Each is one step of the calling thread.

\* upsert, first transaction, within CustomService.save(custom) with
\* custom.id = id and custom.name = name
UpsertCheck(p) ==
    \E id \in Ids, name \in Names :
        /\ calls[p].pc \in {"idle", "done"}
        /\ calls' = [calls EXCEPT ![p] =
                        [Idle EXCEPT !.pc = "checked", !.id = id, !.val = name,
                                     !.existed = rldb_get(id)]]
        /\ UNCHANGED <<peoples, vs, obs, customs, now, uuids, deleted, last, kw, users, codes, tokens>>

\* TRUE when the second transaction raises: the database is unavailable, or
\* session.add inserts a primary key that is in the table by now
UpsertWriteRaises(existed, id, sqlOk) ==
    \/ ~sqlOk
    \/ (~existed /\ id \in DOMAIN customs)

\* the table after the second transaction committed: merge updates the row
\* with that primary key (inserts if there is none), add inserts
UpsertWritten(existed, id, name) ==
    IF existed /\ id \in DOMAIN customs
    THEN [customs EXCEPT ![id] = Merged(customs[id], name, now)]
    ELSE (id :> NewRow(name, now)) @@ customs

\* upsert, second transaction, and the return of CustomService.save
UpsertWrite(p) ==
    \E sqlOk \in BOOLEAN :
        LET c == calls[p]
            raises == UpsertWriteRaises(c.existed, c.id, sqlOk)
        IN /\ c.pc = "checked"
           /\ customs' = IF raises THEN customs
                         ELSE UpsertWritten(c.existed, c.id, c.val)
           /\ calls' = [calls EXCEPT ![p] =
                           [c EXCEPT !.pc = "done", !.ok = ~raises,
                                     !.err = IF raises THEN "RLDB_ERROR" ELSE "",
                                     !.faults = IF sqlOk THEN {} ELSE {"sql"}]]
           /\ UNCHANGED <<peoples, vs, obs, now, uuids, deleted, last, kw, users, codes, tokens>>

NextThreads ==
    \/ \E p \in Callers : UpsertCheck(p)
    \/ \E p \in Callers : UpsertWrite(p)

SpecThreads == Init /\ [][NextThreads]_vars

\* ------------------------------------------------ CustomService, comments
\* users that call the comment operations, comment ids a caller names and
\* the values uuid4().hex produces for new comments
CommentUsers == {"u1", "u2"}
CommentIds == {"c1", "c2"}
CommentGenIds == {"k1", "k2"}

\* what json.loads yields for an element of a JSON list of objects
JsonObject(id, user_id) ==
    [type |-> "dict", id |-> id, user_id |-> user_id, content |-> "A"]

\* what iterating a JSON object yields: its keys
JsonKey(k) == [type |-> "str", s |-> k]

\* Comment(id=..., content=..., user_id=..., created_at=..., updated_at=...)
NewComment(id, content, user_id, t) ==
    [type |-> "Comment", id |-> id, user_id |-> user_id, content |-> content,
     created_at |-> t, updated_at |-> t]

\* the default of Custom.comments
NoComments == [type |-> "dict", items |-> <<>>]

\* values of the field `comments` that Custom.from_dict takes from a
\* client's JSON as given: an object (the declared Dict[str, str]) or a list
ClientComments ==
    {NoComments,
     [type |-> "dict", items |-> <<JsonKey("remark")>>],
     [type |-> "list", items |-> <<>>],
     [type |-> "list", items |-> <<JsonObject("c1", "u1")>>],
     [type |-> "list", items |-> <<JsonObject("c1", "u1"), JsonObject("c2", "u2")>>]}

\* json.dumps(self.comments) in to_rldb_model raises TypeError when the
\* value holds a Comment object
DumpsRaises(v) == \E i \in 1..Len(v.items) : v.items[i].type = "Comment"

\* json.loads(data.comments) if data.comments else {}
from_rldb_comments(row) == row.comments

\* session.merge of a row that carries name and comments
MergedCustom(row, name, v, t) ==
    IF row.name = name /\ row.comments = v THEN row
    ELSE [row EXCEPT !.name = name, !.comments = v, !.updated_at = t]

\* the table after CustomService.save(custom) stored name and comments
UpsertedCustom(id, name, v) ==
    IF rldb_get(id)
    THEN [customs EXCEPT ![id] = MergedCustom(customs[id], name, v, now)]
    ELSE (id :> ([comments |-> v] @@ NewRow(name, now))) @@ customs

\* TRUE when CustomService.save(custom) returns RLDB_ERROR
SaveCustomFails(id, v, sqlOk) == DumpsRaises(v) \/ UpsertRaises(id, sqlOk)

\* CustomService.save(custom) as create_custom and update_custom call it,
\* with the comments of the request
SvcPut ==
    \E id \in CallerIds, name \in {"A"}, v \in ClientComments, sqlOk \in BOOLEAN :
        /\ customs' = IF SaveCustomFails(id, v, sqlOk) THEN customs
                      ELSE UpsertedCustom(id, name, v)
        /\ last' = Returned([op |-> "save", arg |-> id, id |-> id, val |-> name,
                             ok |-> ~SaveCustomFails(id, v, sqlOk),
                             err |-> IF SaveCustomFails(id, v, sqlOk)
                                     THEN "RLDB_ERROR" ELSE "",
                             faults |-> IF sqlOk THEN {} ELSE {"sql"},
                             ret |-> IF SaveCustomFails(id, v, sqlOk) THEN "" ELSE id])
        /\ UNCHANGED <<peoples, vs, obs, now, uuids, deleted, calls, kw, users, codes, tokens>>

\* add_comment up to custom.comments.append(comment): self.get, the new
\* Comment, the append. A dict has no append: AttributeError leaves the call.
AddCommentGet(p) ==
    \E id \in CallerIds, user_id \in CommentUsers, k \in CommentGenIds \ uuids :
        LET c == [Idle EXCEPT !.id = id]
            loaded == from_rldb_comments(customs[id])
        IN /\ calls[p].pc = "idle"
           /\ IF ~rldb_get(id)
              THEN /\ calls' = [calls EXCEPT ![p] =
                                   [c EXCEPT !.pc = "done", !.ok = FALSE,
                                             !.err = "RLDB_NOT_FOUND"]]
                   /\ UNCHANGED uuids
              ELSE /\ uuids' = uuids \cup {k}
                   /\ calls' = [calls EXCEPT ![p] =
                        IF loaded.type # "list"
                        THEN [c EXCEPT !.pc = "done", !.ok = FALSE,
                                       !.err = "AttributeError"]
                        ELSE [c EXCEPT !.pc = "loaded", !.val =
                                [loaded EXCEPT !.items =
                                    Append(@, NewComment(k, "A", user_id, now))]]]
           /\ UNCHANGED <<peoples, vs, obs, customs, now, deleted, last, kw, users, codes, tokens>>

\* add_comment from self.save(custom) on: the whole loaded record is
\* written back with the list the thread appended to
AddCommentSave(p) ==
    \E sqlOk \in BOOLEAN :
        LET c == calls[p]
            fails == SaveCustomFails(c.id, c.val, sqlOk)
        IN /\ c.pc = "loaded"
           /\ customs' = IF fails THEN customs
                         ELSE UpsertedCustom(c.id, customs[c.id].name, c.val)
           /\ calls' = [calls EXCEPT ![p] =
                           [c EXCEPT !.pc = "done", !.ok = ~fails,
                                     !.err = IF fails THEN "RLDB_ERROR" ELSE "",
                                     !.faults = IF sqlOk THEN {} ELSE {"sql"}]]
           /\ UNCHANGED <<peoples, vs, obs, now, uuids, deleted, last, kw, users, codes, tokens>>

\* the loop of update_comment and delete_comment over custom.comments:
\* the position of the first element whose id is comment_id, 0 when the
\* loop ends without one, -1 when reading .id of an element raises
\* AttributeError (the element is not a Comment object)
RECURSIVE comment_at(_, _, _)
comment_at(items, comment_id, i) ==
    IF i > Len(items) THEN 0
    ELSE IF items[i].type # "Comment" THEN -1
    ELSE IF items[i].id = comment_id THEN i
    ELSE comment_at(items, comment_id, i + 1)

\* how update_comment and delete_comment leave before they change anything:
\* "" when they go on to the change
CommentError(v, comment_id, user_id) ==
    LET at == comment_at(v.items, comment_id, 1)
    IN IF at = -1 THEN "AttributeError"
       ELSE IF at = 0 THEN "MODEL_NOT_FOUND"
       ELSE IF v.items[at].user_id # user_id THEN "PERMISSION_DENIED"
       ELSE ""

\* target_comment.content = content; target_comment.updated_at = now()
CommentUpdated(v, comment_id, content) ==
    LET at == comment_at(v.items, comment_id, 1)
    IN [v EXCEPT !.items[at] = [@ EXCEPT !.content = content, !.updated_at = now]]

\* custom.comments.pop(target_index)
CommentPopped(v, comment_id) ==
    LET at == comment_at(v.items, comment_id, 1)
    IN [v EXCEPT !.items = SubSeq(@, 1, at - 1) \o SubSeq(@, at + 1, Len(@))]

\* a comment operation that loaded the record, found `e` and, when e = "",
\* saved the record with the comments `v`
CommentCall(op, id, comment_id, user_id, e, v, sqlOk) ==
    LET err == IF ~rldb_get(id) THEN "RLDB_NOT_FOUND"
               ELSE IF e # "" THEN e
               ELSE IF SaveCustomFails(id, v, sqlOk) THEN "RLDB_ERROR"
               ELSE ""
    IN /\ customs' = IF err = "" THEN UpsertedCustom(id, customs[id].name, v)
                     ELSE customs
       /\ last' = Returned([op |-> op, arg |-> comment_id, id |-> id,
                            val |-> user_id, ok |-> err = "", err |-> err,
                            faults |-> IF rldb_get(id) /\ e = "" /\ ~sqlOk
                                       THEN {"sql"} ELSE {}])
       /\ UNCHANGED <<peoples, vs, obs, now, uuids, deleted, calls, kw, users, codes, tokens>>

\* CustomService.update_comment(custom_id, comment_id, content, user_id)
SvcUpdateComment ==
    \E id \in CallerIds, comment_id \in CommentIds, user_id \in CommentUsers,
       sqlOk \in BOOLEAN :
        LET v == IF rldb_get(id) THEN from_rldb_comments(customs[id]) ELSE NoComments
            e == CommentError(v, comment_id, user_id)
        IN CommentCall("update_comment", id, comment_id, user_id, e,
                       IF e = "" THEN CommentUpdated(v, comment_id, "B") ELSE v,
                       sqlOk)

\* CustomService.delete_comment(custom_id, comment_id, user_id)
SvcDeleteComment ==
    \E id \in CallerIds, comment_id \in CommentIds, user_id \in CommentUsers,
       sqlOk \in BOOLEAN :
        LET v == IF rldb_get(id) THEN from_rldb_comments(customs[id]) ELSE NoComments
            e == CommentError(v, comment_id, user_id)
        IN CommentCall("delete_comment", id, comment_id, user_id, e,
                       IF e = "" THEN CommentPopped(v, comment_id) ELSE v,
                       sqlOk)

NextComments ==
    \/ SvcPut
    \/ \E p \in Callers : AddCommentGet(p)
    \/ \E p \in Callers : AddCommentSave(p)
    \/ SvcUpdateComment
    \/ SvcDeleteComment

SpecComments == Init /\ [][NextComments]_vars

\* ------------------------------------------------------------ UserService
\* phone numbers and e-mail addresses callers present, the six-digit values
\* uuid4().int % 1000000 yields, passwords, and the values uuid4().hex
\* yields for the ids of new users
Phones == {"p1", "p2"}
Emails == {"e1"}
CodeValues == {"000001", "000002"}
UserGenIds == {"ua", "ub"}

\* the scenes of send_code
Scenes == {"register", "update"}

\* expires = datetime.now() + timedelta(minutes=10), in units of the clock:
\* one step of the clock is a period longer than the lifetime of a code
CodeTtl == 0

\* rows of table `verification_codes` the model stores at most
MaxCodes == 2

\* a (target_type, target) pair
PhoneTargets == {<<"phone", p>> : p \in Phones}
EmailTargets == {<<"email", e>> : e \in Emails}

\* VerificationCode(...).to_rldb_model(): the row send_code stores; rows
\* are kept in the order of their insertion, the position stands for the id
NewCode(target_type, target, code, scene, t) ==
    [target_type |-> target_type, target |-> target, code |-> code,
     scene |-> scene, expires_at |-> t + CodeTtl, used_at |-> NULL]

\* UserService.send_code(target_type, target, scene); `sent` is the answer
\* of the mailer or the sms gateway
UserSendCode(targets, scenes) ==
    \E tg \in targets, scene \in scenes \cup {"login"}, code \in CodeValues,
       sent \in BOOLEAN :
        LET supported == scene \in Scenes
        IN /\ Len(codes) < MaxCodes
           /\ codes' = IF supported
                       THEN Append(codes, NewCode(tg[1], tg[2], code, scene, now))
                       ELSE codes
           /\ last' = Returned([op |-> "send_code", val |-> tg[2], arg |-> scene,
                                ok |-> supported /\ sent,
                                err |-> IF ~supported THEN "scene not supported"
                                        ELSE IF ~sent THEN "send code failed"
                                        ELSE "",
                                ret |-> IF supported THEN code ELSE ""])
           /\ UNCHANGED <<peoples, vs, obs, customs, now, uuids, deleted, calls,
                          kw, users, tokens>>

\* rldb.query(VerificationCodeRLDBModel, target_type=, target=, scene=):
\* the rows the filter matches; with limit=1 and no ORDER BY the database
\* returns any one of them
code_rows(target_type, target, scene) ==
    {i \in 1..Len(codes) : /\ codes[i].target_type = target_type
                           /\ codes[i].target = target
                           /\ codes[i].scene = scene}

\* a check that takes a used code for a valid one
code_invalid_reusable(vc, code) == vc.code # code \/ vc.expires_at < now

\* vc.code != code or vc.expires_at < datetime.now() or vc.used_at is not None
code_invalid(vc, code) ==
    vc.code # code \/ vc.expires_at < now \/ vc.used_at # NULL

\* vc.used_at = datetime.now(); self.rldb.upsert(vc)
code_used(i) == [codes EXCEPT ![i].used_at = now]

\* UserService._get_user_by_identifier(email, phone): the ids of the rows
\* it may return; empty when it returns None
user_by_identifier(email, phone) ==
    IF email # "" /\ \E u \in DOMAIN users : users[u].email = email
    THEN {u \in DOMAIN users : users[u].email = email}
    ELSE IF phone # ""
    THEN {u \in DOMAIN users : users[u].phone = phone}
    ELSE {}

\* UserService._hash_password(password, salt): "salt:digest"; the digest is
\* a function of salt and password
hash_password(password, salt) == <<salt, <<salt, password>>>>

\* UserService._verify_password(password, password_hash)
verify_password(password, password_hash) ==
    hash_password(password, password_hash[1]) = password_hash

\* User.to_rldb_model(): absent identifiers are stored as ''
NewUser(email, phone, password) ==
    [email |-> email, phone |-> phone, password_hash |-> password]

\* the unique constraints of UserRLDBModel.email and .phone: TRUE when
\* writing `row` under id raises IntegrityError
unique_violated(id, row) ==
    \E u \in DOMAIN users \ {id} :
        users[u].email = row.email \/ users[u].phone = row.phone

\* the record of a call of register or update_*_with_code
CodeCall(op, user_id, tg, code) ==
    [op |-> op, id |-> user_id, val |-> tg[2], arg |-> code,
     among |-> {tg[1]}]

\* register(user, code) from the code query on
RegisterWithCode(email, phone, password, code, tg, dbOk) ==
    LET call == CodeCall("register", "", tg, code)
        rows == code_rows(tg[1], tg[2], "register")
    IN
    IF rows = {}
    THEN /\ last' = Returned([ok |-> FALSE, err |-> "code not found"] @@ call)
         /\ UNCHANGED <<codes, users, uuids>>
    ELSE \E i \in rows :
        IF code_invalid(codes[i], code)
        THEN /\ last' = Returned([ok |-> FALSE, err |-> "invalid code"] @@ call)
             /\ UNCHANGED <<codes, users, uuids>>
        ELSE \E id \in UserGenIds \ uuids :
             /\ codes' = code_used(i)
             /\ uuids' = uuids \cup {id}
             /\ IF ~dbOk \/ unique_violated(id, NewUser(email, phone, password))
                THEN /\ last' = Returned([ok |-> FALSE,
                                          err |-> IF dbOk THEN "IntegrityError"
                                                  ELSE "OperationalError",
                                          faults |-> IF dbOk THEN {} ELSE {"sql"}]
                                         @@ call)
                     /\ UNCHANGED users
                ELSE /\ users' = (id :> NewUser(email, phone, password)) @@ users
                     /\ last' = Returned([ret |-> id] @@ call)

\* UserService.register(user, code)
UserRegister(emails, phones) ==
    \E email \in emails \cup {""}, phone \in phones \cup {""},
       code \in CodeValues, dbOk \in BOOLEAN :
        LET tg == IF phone # "" THEN <<"phone", phone>> ELSE <<"email", email>>
            call == CodeCall("register", "", tg, code)
        IN /\ IF email = "" /\ phone = ""
              THEN /\ last' = Returned([ok |-> FALSE,
                                        err |-> "email or phone required"] @@ call)
                   /\ UNCHANGED <<codes, users, uuids>>
              ELSE IF user_by_identifier(email, phone) # {}
              THEN /\ last' = Returned([ok |-> FALSE, err |-> "user existed"] @@ call)
                   /\ UNCHANGED <<codes, users, uuids>>
              ELSE RegisterWithCode(email, phone, hash_password("pw", "s"),
                                    code, tg, dbOk)
           /\ UNCHANGED <<peoples, vs, obs, customs, now, deleted, calls, kw,
                          tokens>>

\* the error of update_profile(user_id, phone=..) / (user_id, email=..);
\* "" when it goes on to the write
profile_error(user_id, tg) ==
    LET field == tg[1]
        other == IF field = "phone" THEN "email" ELSE "phone"
        conflicts == {u \in DOMAIN users : users[u][field] = tg[2]}
    IN IF user_id \notin DOMAIN users THEN "user not found"
       ELSE IF users[user_id][field] # "" /\ users[user_id][other] = ""
       THEN field \o " update requires " \o other \o " exists"
       ELSE IF conflicts # {} /\ conflicts # {user_id}
       THEN field \o " existed"
       ELSE ""

\* UserService.update_profile(user_id, phone=..) or (user_id, email=..):
\* the table `users` afterwards
profile_updated(user_id, tg) ==
    IF profile_error(user_id, tg) = "" THEN [users EXCEPT ![user_id][tg[1]] = tg[2]]
    ELSE users

\* UserService.update_profile(user_id, email=.. | phone=..)
UserUpdateProfile(targets) ==
    \E user_id \in UserGenIds, tg \in targets \cup {<<"email", "">>, <<"phone", "">>} :
        /\ users' = profile_updated(user_id, tg)
        /\ last' = Returned([op |-> "update_profile", id |-> user_id, val |-> tg[2],
                             among |-> {tg[1]},
                             ok |-> profile_error(user_id, tg) = "",
                             err |-> profile_error(user_id, tg)])
        /\ UNCHANGED <<peoples, vs, obs, customs, now, uuids, deleted, calls, kw,
                       codes, tokens>>

\* UserService.update_phone_with_code and update_email_with_code
UserUpdateWithCode(targets) ==
    \E user_id \in UserGenIds, tg \in targets, code \in CodeValues :
        LET call == CodeCall("update_with_code", user_id, tg, code)
            rows == code_rows(tg[1], tg[2], "update")
        IN /\ IF rows = {}
              THEN /\ last' = Returned([ok |-> FALSE, err |-> "code not found"] @@ call)
                   /\ UNCHANGED <<codes, users>>
              ELSE \E i \in rows :
                   IF code_invalid(codes[i], code)
                   THEN /\ last' = Returned([ok |-> FALSE, err |-> "invalid code"]
                                            @@ call)
                        /\ UNCHANGED <<codes, users>>
                   ELSE /\ codes' = code_used(i)
                        /\ users' = profile_updated(user_id, tg)
                        /\ last' = Returned([ok |-> profile_error(user_id, tg) = "",
                                             err |-> profile_error(user_id, tg)]
                                            @@ call)
           /\ UNCHANGED <<peoples, vs, obs, customs, now, uuids, deleted, calls,
                          kw, tokens>>

\* UserService.delete_user(user_id): SqlAlchemyDB.delete removes the row
UserDelete ==
    \E user_id \in UserGenIds :
        /\ users' = Restrict(users, DOMAIN users \ {user_id})
        /\ deleted' = IF user_id \in DOMAIN users THEN deleted \cup {user_id}
                       ELSE deleted
        /\ last' = Returned([op |-> "delete_user", id |-> user_id,
                             ok |-> user_id \in DOMAIN users,
                             err |-> IF user_id \in DOMAIN users THEN ""
                                     ELSE "user not found"])
        /\ UNCHANGED <<peoples, vs, obs, customs, now, uuids, calls, kw,
                       codes, tokens>>

\* verification codes of one phone number
NextCodes ==
    \/ Tick
    \/ UserSendCode({<<"phone", "p1">>}, Scenes)
    \/ UserRegister({}, {"p1"})
    \/ UserUpdateWithCode({<<"phone", "p1">>})
    \/ UserDelete

SpecCodes == Init /\ [][NextCodes]_vars

\* ------------------------------------------------------------ sessions
\* the random part uuid4().hex of a token; it stands for the token
TokenGenIds == {"t1", "t2"}

\* passwords callers present
Passwords == {"pw", "no"}

\* expired_at = datetime.now() + timedelta(days=ttl_days), in units of the
\* clock: one step of the clock is a period longer than the life of a token
TokenTtl == 0

\* UserToken(user_id=u.id, token=token, expired_at=expired_at, revoked=False)
NewToken(user_id, t) ==
    [user_id |-> user_id, expired_at |-> t + TokenTtl, revoked |-> FALSE]

\* UserService.login(email, phone, password)
UserLogin ==
    \E tg \in PhoneTargets \cup EmailTargets, password \in Passwords,
       tok \in TokenGenIds \ uuids :
        LET found == user_by_identifier(IF tg[1] = "email" THEN tg[2] ELSE "",
                                        IF tg[1] = "phone" THEN tg[2] ELSE "")
            call == [op |-> "login", val |-> tg[2], among |-> {tg[1]}]
        IN /\ IF found = {}
              THEN /\ last' = Returned([ok |-> FALSE, err |-> "user not found"]
                                       @@ call)
                   /\ UNCHANGED <<tokens, uuids>>
              ELSE \E u \in found :
                   IF ~verify_password(password, users[u].password_hash)
                   THEN /\ last' = Returned([ok |-> FALSE, id |-> u,
                                             err |-> "invalid password"] @@ call)
                        /\ UNCHANGED <<tokens, uuids>>
                   ELSE /\ tokens' = (tok :> NewToken(u, now)) @@ tokens
                        /\ uuids' = uuids \cup {tok}
                        /\ last' = Returned([id |-> u, ret |-> tok] @@ call)
           /\ UNCHANGED <<peoples, vs, obs, customs, now, deleted, calls, kw,
                          users, codes>>

\* the table `user_tokens` after logout(token) found the row
LogoutRevoked(token) == [tokens EXCEPT ![token].revoked = TRUE]

\* UserService.logout(token)
UserLogout ==
    \E token \in TokenGenIds :
        /\ tokens' = IF token \in DOMAIN tokens THEN LogoutRevoked(token)
                      ELSE tokens
        /\ last' = Returned([op |-> "logout", arg |-> token,
                             ok |-> token \in DOMAIN tokens,
                             err |-> IF token \in DOMAIN tokens THEN ""
                                     ELSE "token not found"])
        /\ UNCHANGED <<peoples, vs, obs, customs, now, uuids, deleted, calls, kw,
                       users, codes>>

\* a check of the token row alone
auth_error_token_only(token) ==
    IF token \notin DOMAIN tokens THEN "401"
    ELSE IF tokens[token].revoked THEN "401"
    ELSE IF tokens[token].expired_at < now THEN "401"
    ELSE "AttributeError"

\* require_auth(request, token): "401" for HTTPException(401); a token that
\* passes every check ends at request.state.user_org_id = user.org_id,
\* which raises AttributeError, User having no attribute org_id
auth_error(token) ==
    IF token \notin DOMAIN tokens THEN "401"
    ELSE IF tokens[token].revoked THEN "401"
    ELSE IF tokens[token].expired_at < now THEN "401"
    ELSE IF tokens[token].user_id \notin DOMAIN users THEN "401"
    ELSE "AttributeError"

\* require_auth(request, token)
RequireAuth ==
    \E token \in TokenGenIds :
        /\ last' = Returned([op |-> "require_auth", arg |-> token,
                             id |-> IF token \in DOMAIN tokens
                                    THEN tokens[token].user_id ELSE "",
                             ok |-> auth_error(token) = "",
                             err |-> auth_error(token)])
        /\ UNCHANGED <<peoples, vs, obs, customs, now, uuids, deleted, calls, kw,
                       users, codes, tokens>>

\* UserService.get(user_id)
UserGet ==
    \E user_id \in UserGenIds :
        /\ last' = Returned([op |-> "get_user", id |-> user_id,
                             ok |-> user_id \in DOMAIN users,
                             err |-> IF user_id \in DOMAIN users THEN ""
                                     ELSE "user not found"])
        /\ UNCHANGED <<peoples, vs, obs, customs, now, uuids, deleted, calls, kw,
                       users, codes, tokens>>

\* two registered users, one by phone and one by e-mail
InitAuth ==
    /\ peoples = <<>>
    /\ vs = <<>>
    /\ obs = <<>>
    /\ customs = <<>>
    /\ now = 0
    /\ uuids = UserGenIds
    /\ deleted = {}
    /\ last = NoCall
    /\ calls = [p \in Callers |-> Idle]
    /\ kw = <<>>
    /\ users = [u \in UserGenIds |->
                    IF u = "ua" THEN NewUser("", "p1", hash_password("pw", "s"))
                    ELSE NewUser("e1", "", hash_password("pw", "s"))]
    /\ codes = <<>>
    /\ tokens = <<>>

NextAuth ==
    \/ Tick
    \/ UserLogin
    \/ UserLogout
    \/ RequireAuth
    \/ UserDelete
    \/ UserGet

SpecAuth == InitAuth /\ [][NextAuth]_vars

\* ------------------------------------------------------------ web layer
\* request.state.user_org_id of a request
Orgs == {"", "o1"}

\* getattr(owner_orm, 'org_id', ''): UserRLDBModel has no column org_id
owner_org_id(owner) == ""

\* a permission check that lets every request pass
check_permission_open(request_user_id, request_user_org_id, resource_owner_id) ==
    TRUE

\* check_permission(request_user_id, request_user_org_id, resource_owner_id)
check_permission(request_user_id, request_user_org_id, resource_owner_id) ==
    \/ request_user_id = resource_owner_id
    \/ /\ request_user_org_id # ""
       /\ resource_owner_id \in DOMAIN users
       /\ owner_org_id(resource_owner_id) # ""
       /\ owner_org_id(resource_owner_id) = request_user_org_id

\* row of table `customs` with its owner
OwnedRow(name, user_id, t) == [user_id |-> user_id] @@ NewRow(name, t)

\* the table after CustomService.save(custom) stored name and user_id
web_saved(id, name, user_id) ==
    IF rldb_get(id)
    THEN [customs EXCEPT ![id] =
            IF @.name = name /\ @.user_id = user_id THEN @
            ELSE [@ EXCEPT !.name = name, !.user_id = user_id, !.updated_at = now]]
    ELSE (id :> OwnedRow(name, user_id, now)) @@ customs

\* the record of a request: the requesting user (arg), its organization
\* (among), the record (id) and the name sent (val)
WebCall(op, user, org, id, name) ==
    [op |-> op, arg |-> user, among |-> {org}, id |-> id, val |-> name]

\* create_custom: the record carries the id the client sent, if any
WebCreateCustom ==
    \E user \in UserGenIds, inId \in CallerIds \cup {""}, name \in Names :
        \E id \in SvcNewId(inId) :
            /\ customs' = web_saved(id, name, user)
            /\ uuids' = IF inId = "" THEN uuids \cup {id} ELSE uuids
            /\ last' = Returned([ret |-> id]
                                @@ WebCall("create_custom", user, "", id, name))
            /\ UNCHANGED <<peoples, vs, obs, now, deleted, calls, kw, users,
                           codes, tokens>>

\* update_custom
WebUpdateCustom ==
    \E user \in UserGenIds, org \in Orgs, id \in Ids, name \in Names :
        LET call == WebCall("update_custom", user, org, id, name)
        IN /\ IF ~rldb_get(id)
              THEN /\ last' = Returned([ok |-> FALSE, err |-> "RLDB_NOT_FOUND"]
                                       @@ call)
                   /\ UNCHANGED customs
              ELSE IF ~check_permission(user, org, customs[id].user_id)
              THEN /\ last' = Returned([ok |-> FALSE, err |-> "permission denied"]
                                       @@ call)
                   /\ UNCHANGED customs
              ELSE /\ customs' = web_saved(id, name, customs[id].user_id)
                   /\ last' = Returned(call)
           /\ UNCHANGED <<peoples, vs, obs, now, uuids, deleted, calls, kw, users,
                          codes, tokens>>

\* delete_custom
WebDeleteCustom ==
    \E user \in UserGenIds, id \in Ids :
        LET call == WebCall("delete_custom", user, "", id, "")
        IN /\ IF ~rldb_get(id)
              THEN /\ last' = Returned([ok |-> FALSE, err |-> "RLDB_NOT_FOUND"]
                                       @@ call)
                   /\ UNCHANGED customs
              ELSE IF user # customs[id].user_id
              THEN /\ last' = Returned([ok |-> FALSE,
                                        err |-> "permission denied: only owner can delete"]
                                       @@ call)
                   /\ UNCHANGED customs
              ELSE /\ customs' = Restrict(customs, DOMAIN customs \ {id})
                   /\ last' = Returned([ret |-> id] @@ call)
           /\ UNCHANGED <<peoples, vs, obs, now, uuids, deleted, calls, kw, users,
                          codes, tokens>>

\* update_people and delete_people up to service.get(people_id):
\* PeopleService.get answers a missing row with an error and raises
\* AttributeError on a stored one, People having no from_rldb_model
WebPeople ==
    \E op \in {"update_people", "delete_people"}, user \in UserGenIds,
       org \in Orgs, id \in Ids :
        /\ last' = Returned([ok |-> FALSE,
                             err |-> IF id \in Live(peoples) THEN "AttributeError"
                                     ELSE "not found"]
                            @@ WebCall(op, user, org, id, ""))
        /\ UNCHANGED <<peoples, vs, obs, customs, now, uuids, deleted, calls, kw,
                       users, codes, tokens>>

\* two registered users; table `peoples` empty or with one row
InitWeb ==
    /\ peoples \in {<<>>, ("a" :> NewRow("A", 0))}
    /\ vs = <<>>
    /\ obs = <<>>
    /\ customs = <<>>
    /\ now = 0
    /\ uuids = UserGenIds
    /\ deleted = {}
    /\ last = NoCall
    /\ calls = [p \in Callers |-> Idle]
    /\ kw = <<>>
    /\ users = [u \in UserGenIds |->
                    IF u = "ua" THEN NewUser("", "p1", hash_password("pw", "s"))
                    ELSE NewUser("e1", "", hash_password("pw", "s"))]
    /\ codes = <<>>
    /\ tokens = <<>>

NextWeb ==
    \/ WebCreateCustom
    \/ WebUpdateCustom
    \/ WebDeleteCustom
    \/ WebPeople

SpecWeb == InitWeb /\ [][NextWeb]_vars

\* registration and profile changes of users with a phone number, an
\* e-mail address or both
NextRegister ==
    \/ UserSendCode(PhoneTargets \cup EmailTargets, {"register"})
    \/ UserRegister(Emails, Phones)
    \/ UserUpdateProfile(PhoneTargets \cup EmailTargets)

SpecRegister == Init /\ [][NextRegister]_vars

\* ------------------------------------------------------------ the indexes
\* chromadb Collection.add: an id the collection already holds is not
\* written again
collection_add(idx, id, doc) ==
    IF id \in DOMAIN idx THEN idx ELSE (id :> doc) @@ idx

\* chromadb Collection.update: an id the collection does not hold is skipped
collection_update(idx, id, doc) ==
    IF id \in DOMAIN idx THEN [idx EXCEPT ![id] = doc] ELSE idx

\* an upsert that keeps the entry an id already has
collection_upsert_keep(idx, id, doc) ==
    IF id \in DOMAIN idx THEN idx ELSE (id :> doc) @@ idx

\* chromadb Collection.upsert
collection_upsert(idx, id, doc) == (id :> doc) @@ idx

\* a delete that empties the collection
collection_delete_all(idx, id) == <<>>

\* chromadb Collection.delete(ids=[id])
collection_delete(idx, id) == Restrict(idx, DOMAIN idx \ {id})

\* whoosh writer.update_document on a schema whose id field is unique
update_document(idx, id, doc) == (id :> doc) @@ idx

\* whoosh writer.delete_by_term("id", id)
delete_by_term(idx, id) == Restrict(idx, DOMAIN idx \ {id})

\* the record of a call on an index holding idx; rows is the number of
\* entries the index had for the id
IdxCall(op, idx, id, doc) ==
    [op |-> op, arg |-> id, id |-> id, val |-> doc,
     rows |-> IF id \in DOMAIN idx THEN 1 ELSE 0]

\* a call that raised because the backend did not answer
IdxDown(call) == Returned([ok |-> FALSE, err |-> "vs", faults |-> {"vs"}] @@ call)

\* ChromaDB.insert(data); dupRaises: this chromadb raises DuplicateIDError
\* for an id it holds (other versions ignore the record)
VsInsert ==
    \E id \in Ids, doc \in Names, up \in BOOLEAN, dupRaises \in BOOLEAN :
        LET call == IdxCall("vs.insert", vs, id, to_vs_text(doc))
        IN /\ IF ~up THEN last' = IdxDown(call) /\ UNCHANGED vs
              ELSE IF id \in DOMAIN vs /\ dupRaises
              THEN /\ last' = Returned([ok |-> FALSE, err |-> "DuplicateIDError"]
                                       @@ call)
                   /\ UNCHANGED vs
              ELSE /\ vs' = collection_add(vs, id, to_vs_text(doc))
                   /\ last' = Returned([ret |-> id] @@ call)
           /\ UNCHANGED <<peoples, obs, customs, now, uuids, deleted, calls, kw, users, codes, tokens>>

\* ChromaDB.update(data)
VsUpdate ==
    \E id \in Ids, doc \in Names, up \in BOOLEAN :
        LET call == IdxCall("vs.update", vs, id, to_vs_text(doc))
        IN /\ IF ~up THEN last' = IdxDown(call) /\ UNCHANGED vs
              ELSE /\ vs' = collection_update(vs, id, to_vs_text(doc))
                   /\ last' = Returned([ret |-> id] @@ call)
           /\ UNCHANGED <<peoples, obs, customs, now, uuids, deleted, calls, kw, users, codes, tokens>>

\* ChromaDB.upsert(data)
VsUpsert ==
    \E id \in Ids, doc \in Names, up \in BOOLEAN :
        LET call == IdxCall("vs.upsert", vs, id, to_vs_text(doc))
        IN /\ IF ~up THEN last' = IdxDown(call) /\ UNCHANGED vs
              ELSE /\ vs' = collection_upsert(vs, id, to_vs_text(doc))
                   /\ last' = Returned([ret |-> id] @@ call)
           /\ UNCHANGED <<peoples, obs, customs, now, uuids, deleted, calls, kw, users, codes, tokens>>

\* ChromaDB.delete(data)
VsDelete ==
    \E id \in Ids, up \in BOOLEAN :
        LET call == IdxCall("vs.delete", vs, id, "")
        IN /\ IF ~up THEN last' = IdxDown(call) /\ UNCHANGED vs
              ELSE /\ vs' = collection_delete(vs, id)
                   /\ last' = Returned([ret |-> id] @@ call)
           /\ UNCHANGED <<peoples, obs, customs, now, uuids, deleted, calls, kw, users, codes, tokens>>

\* WhooshDB.insert(data): skipped with "" when get() finds the id
KwInsert ==
    \E id \in Ids, doc \in Names, up \in BOOLEAN :
        LET call == IdxCall("kw.insert", kw, id, doc)
        IN /\ IF ~up THEN last' = IdxDown(call) /\ UNCHANGED kw
              ELSE IF id \in DOMAIN kw
              THEN last' = Returned(call) /\ UNCHANGED kw
              ELSE /\ kw' = update_document(kw, id, doc)
                   /\ last' = Returned([ret |-> id] @@ call)
           /\ UNCHANGED <<peoples, vs, obs, customs, now, uuids, deleted, calls, users, codes, tokens>>

\* WhooshDB.update(data): self.get(data.id) lacks the model argument
KwUpdate ==
    \E id \in Ids, doc \in Names :
        /\ last' = Returned([ok |-> FALSE, err |-> "TypeError"]
                            @@ IdxCall("kw.update", kw, id, doc))
        /\ UNCHANGED <<peoples, vs, obs, customs, now, uuids, deleted, calls, kw, users, codes, tokens>>

\* WhooshDB.upsert(data)
KwUpsert ==
    \E id \in Ids, doc \in Names, up \in BOOLEAN :
        LET call == IdxCall("kw.upsert", kw, id, doc)
        IN /\ IF ~up THEN last' = IdxDown(call) /\ UNCHANGED kw
              ELSE /\ kw' = update_document(kw, id, doc)
                   /\ last' = Returned([ret |-> id] @@ call)
           /\ UNCHANGED <<peoples, vs, obs, customs, now, uuids, deleted, calls, users, codes, tokens>>

\* WhooshDB.delete(data): returns True
KwDelete ==
    \E id \in Ids, up \in BOOLEAN :
        LET call == IdxCall("kw.delete", kw, id, "")
        IN /\ IF ~up THEN last' = IdxDown(call) /\ UNCHANGED kw
              ELSE /\ kw' = delete_by_term(kw, id)
                   /\ last' = Returned(call)
           /\ UNCHANGED <<peoples, vs, obs, customs, now, uuids, deleted, calls, users, codes, tokens>>

NextIdx ==
    \/ VsInsert
    \/ VsUpdate
    \/ VsUpsert
    \/ VsDelete
    \/ KwInsert
    \/ KwUpdate
    \/ KwUpsert
    \/ KwDelete

SpecIdx == Init /\ [][NextIdx]_vars

\* ------------------------------------------------------------ PeopleService
\* PeopleService.list(conds, limit, offset) on table `peoples`; among is the
\* value of a list-valued filter as web get_peoples passes one (empty when
\* there is none).  limit and offset are not handed to SqlAlchemyDB.query,
\* which then applies its defaults; filter_by compares for equality and has
\* no column for the list-valued filter, so the query raises; People has no
\* from_rldb_model, so the conversion of a row raises.
people_list(cond, among, limit, offset, dbOrder) ==
    LET people_orms == rldb_query_table(peoples, DefaultLimit, 0, dbOrder)
    IN IF among # {}
       THEN [ok |-> FALSE, err |-> "InvalidRequestError", out |-> <<>>]
       ELSE IF people_orms # <<>>
       THEN [ok |-> FALSE, err |-> "AttributeError", out |-> <<>>]
       ELSE [ok |-> TRUE, err |-> "", out |-> <<>>]

PplList ==
    \E cond \in {""} \cup Names, among \in SUBSET Names,
       limit \in Limits, offset \in Offsets :
        \E dbOrder \in PermsOf(Matching(peoples, cond)) :
            LET res == people_list(cond, among, limit, offset, dbOrder)
            IN /\ last' = Returned([op |-> "list", val |-> cond, among |-> among,
                                    limit |-> limit, offset |-> offset,
                                    ok |-> res.ok, err |-> res.err,
                                    out |-> res.out])
               /\ UNCHANGED <<peoples, vs, obs, customs, now, uuids, deleted, calls, kw, users, codes, tokens>>

\* PeopleService.list on every table
NextPplList == PplList

SpecPplList == InitRead /\ [][NextPplList]_vars

\* ============================================================ properties
Distinct(s) == \A i, j \in 1..Len(s) : i # j => s[i] # s[j]
IdsOf(out) == [i \in 1..Len(out) |-> out[i].id]
OutIds(out) == {out[i].id : i \in 1..Len(out)}

\* C1 (P1, soft-delete exclusion): once PeopleStore.delete has returned for a
\* record, find reports it not found and its id is in no result of query or
\* of search, whatever list of ids the index answers with.
C1_SoftDeleteExclusion ==
    \A id \in deleted :
        /\ ~find(id).ok
        /\ \A cond \in {""} \cup Names, limit \in Limits, offset \in Offsets :
               \A dbOrder \in PermsOf(Matching(peoples, cond)) :
                   id \notin OutIds(query(cond, limit, offset, dbOrder))
        /\ \A ranked \in SeqsUpTo(Ids, MaxRank) :
               \A loadOrder \in PermsOf(Loaded(ranked)) :
                   id \notin OutIds(search(ranked, loadOrder))

\* a delete returned for a record whose index entry is still there
C1_Witness ==
    /\ last.op = "delete" /\ last.ok
    /\ last.id \in deleted
    /\ last.id \in DOMAIN vs

\* C2 (P2, idempotent delete), as claimed: a delete that meets no backend
\* failure returns success, also for an id without a live row.
C2_DeleteAlwaysSucceeds ==
    (last.op = "delete" /\ last.faults = {}) => (last.ok /\ last.err # "RLDB_NOT_FOUND")

\* C3 (P3, rank preservation): when the index answers with distinct ids that
\* are all live, search returns exactly these records in the order of the
\* index, whatever their created_at and whatever order the batch load had.
C3_RankPreserved ==
    (/\ last.op = "search" /\ last.ok
     /\ Distinct(last.ranked)
     /\ ToSet(last.ranked) \subseteq Live(peoples))
    => IdsOf(last.out) = last.ranked

\* three live records whose rank order is not their created_at order
C3_Witness ==
    /\ last.op = "search" /\ last.ok
    /\ Len(last.ranked) = 3 /\ Distinct(last.ranked)
    /\ ToSet(last.ranked) \subseteq Live(peoples)
    /\ peoples[last.ranked[1]].created_at < peoples[last.ranked[3]].created_at
    /\ IdsOf(last.out) = last.ranked

\* the ranked ids that have a live row, in rank order
LiveOnly(ranked) == SelectSeq(ranked, LAMBDA x : x \in Live(peoples))

\* C4 (P4, self-healing): ids of the ranked list that are soft-deleted or
\* absent are dropped; the result is the complete records of the remaining
\* ids in rank order, and the search does not fail.
C4_SelfHealing ==
    (last.op = "search" /\ last.err = "" /\ Distinct(last.ranked))
    => /\ last.ok
       /\ last.out = [i \in 1..Len(LiveOnly(last.ranked)) |->
                         to_people(peoples, LiveOnly(last.ranked)[i])]

\* the index answers [a, b, c] with b soft-deleted: the result is [a, c]
C4_Witness ==
    /\ last.op = "search" /\ last.ok
    /\ Len(last.ranked) = 3 /\ Distinct(last.ranked)
    /\ {last.ranked[1], last.ranked[3]} \subseteq Live(peoples)
    /\ last.ranked[2] \in DOMAIN peoples \ Live(peoples)
    /\ IdsOf(last.out) = <<last.ranked[1], last.ranked[3]>>

SameFieldsResave ==
    /\ SvcSave
    /\ last'.arg # ""
    /\ last'.arg \in Live(customs)
    /\ customs[last'.arg].name = last'.val
    /\ last'.faults = {}

C7_IdGeneration ==
    [][(StoreSave /\ last'.ok)
       => /\ last'.ret # ""
          /\ last'.arg # "" => last'.ret = last'.arg
          /\ last'.arg = "" => last'.ret \notin DOMAIN peoples
          /\ last'.ret \in Live(peoples')
          /\ peoples'[last'.ret].name = last'.val]_vars

\* a save without id returned a generated id while another record exists
C7_Witness ==
    /\ last.op = "save" /\ last.ok /\ last.arg = ""
    /\ last.ret \in GenIds \cap Live(peoples)
    /\ DOMAIN peoples \ {last.ret} # {}

C9_RelationalGate ==
    [][(StoreSave /\ last'.err = "sql")
       => /\ ~last'.ok /\ last'.ret = ""
          /\ peoples' = peoples
          /\ vs' = vs
          /\ obs' = obs]_vars

\* a save met a failing database
C9_Witness ==
    /\ last.op = "save" /\ "sql" \in last.faults
    /\ last.id \notin DOMAIN peoples

\* C10 (blob failure is not fatal): a save whose obs.Put fails returns the
\* id all the same, and find returns the record.
C10_BlobFailureNotFatal ==
    (last.op = "save" /\ "obs" \in last.faults)
    => /\ last.ok /\ last.ret = last.id
       /\ find(last.id).ok
       /\ find(last.id).out = <<[id |-> last.id, name |-> last.val]>>

\* a save returned although the snapshot was not stored
C10_Witness ==
    /\ last.op = "save" /\ "obs" \in last.faults
    /\ last.id \in DOMAIN vs
    /\ DetailPath(last.id) \notin DOMAIN obs

\* C11 (defensive cleanup), as claimed: a delete for an id without a live
\* row, meeting no backend failure, still calls vsdb.delete and removes
\* every key under peoples/{id}/: afterwards the index has no entry and the
\* object store no key for that id.
C11_DefensiveCleanup ==
    [][(last'.op = "delete" /\ last'.id \notin Live(peoples) /\ last'.faults = {})
       => /\ last'.ok
          /\ last'.id \notin DOMAIN vs'
          /\ \A p \in DOMAIN obs' : ~(p[1] = "peoples" /\ p[2] = last'.id)]_vars

\* C12 (delete ignores index and blob failures), as claimed: a delete whose
\* UPDATE was committed returns normally, whatever vsdb.delete, obs.List
\* and obs.Del did.
C12_DeleteOutcomeUnchanged ==
    (last.op = "delete" /\ "sql" \notin last.faults) => last.ok

\* a soft-deleted row whose index entry is still there
Stale(id) ==
    /\ id \in DOMAIN vs
    /\ id \in DOMAIN peoples
    /\ peoples[id].deleted_at # NULL

IdRank == ("a" :> 1) @@ ("b" :> 2) @@ ("c" :> 3) @@ ("u1" :> 4)

\* the ids of S ordered by created_at descending, ties by id ascending
ByCreatedThenId(table, S) ==
    CHOOSE s \in PermsOf(S) :
        \A i, j \in 1..Len(s) :
            i < j => \/ table[s[i]].created_at > table[s[j]].created_at
                     \/ /\ table[s[i]].created_at = table[s[j]].created_at
                        /\ IdRank[s[i]] < IdRank[s[j]]

\* the slice [offset, offset + limit) of a sequence
Slice(s, limit, offset) == SubSeq(s, offset + 1, Min(offset + limit, Len(s)))

\* C14 (query ordering and pagination), as claimed: query returns the slice
\* [offset, offset + limit) of all live rows matching the filter, ordered by
\* created_at descending with ties by id ascending.
C14_SortedSlice ==
    (last.op = "query")
    => IdsOf(last.out) =
           Slice(ByCreatedThenId(peoples, Matching(peoples, last.val)),
                 last.limit, last.offset)

\* C15 (list delegates to query), as claimed: list returns what
\* SqlAlchemyDB.query returns for the same filter, limit and offset.
C15_ListIsQuery ==
    (last.op = "list" /\ last.among = {})
    => /\ last.ok
       /\ \E dbOrder \in PermsOf(Matching(peoples, last.val)) :
              last.out = rldb_query_table(peoples, last.limit, last.offset, dbOrder)

\* C16 (set-membership filter), as claimed: a list with a list-valued filter
\* returns exactly the live rows whose field is one of the listed values
\* (the page being large enough to hold them all).
C16_MembershipFilter ==
    (last.op = "list" /\ last.among # {} /\ last.val = ""
       /\ last.limit = DefaultLimit /\ last.offset = 0)
    => /\ last.ok
       /\ OutIds(last.out) = {id \in Live(peoples) : peoples[id].name \in last.among}
       /\ Len(last.out) = Cardinality(OutIds(last.out))

\* C17 (save inserts when no live row exists), as claimed: a save with a
\* non-empty id that has no live row, meeting no backend failure, succeeds
\* and leaves a live row with that id, also when the only row with that id
\* is soft-deleted.
C17_SaveWithoutLiveRow ==
    [][(/\ last'.op = "save" /\ last'.arg # ""
        /\ last'.arg \notin Live(peoples)
        /\ last'.faults = {})
       => /\ last'.ok
          /\ last'.arg \in Live(peoples')]_vars

\* C18 (concurrent saves are safe), as claimed: when two threads saved the
\* same id at the same time, both having found no live row, and the
\* database was available to both, both saves returned without error and
\* the id has a live row.
C18_ConcurrentSavesSafe ==
    \A p, q \in Callers :
        (/\ p # q
         /\ calls[p].pc = "done" /\ calls[q].pc = "done"
         /\ calls[p].id = calls[q].id
         /\ ~calls[p].existed /\ ~calls[q].existed
         /\ calls[p].faults = {} /\ calls[q].faults = {})
        => /\ calls[p].ok /\ calls[q].ok
           /\ calls[p].id \in Live(customs)

\* C19 (index failure fails search only): when vsdb.search raises, search
\* raises and returns no record; in the same state find returns every live
\* record and query returns the live rows matching its filter.
C19_SearchFailureIsFatal ==
    (last.op = "search" /\ "vs" \in last.faults)
    => /\ ~last.ok /\ last.out = <<>>
       /\ \A id \in Live(peoples) :
              find(id).ok /\ find(id).out = <<to_people(peoples, id)>>
       /\ \A cond \in {""} \cup Names :
              \A dbOrder \in PermsOf(Matching(peoples, cond)) :
                  OutIds(query(cond, DefaultLimit, 0, dbOrder)) = Matching(peoples, cond)

\* a search failed on the index while the table holds live rows
C19_Witness ==
    /\ last.op = "search" /\ "vs" \in last.faults /\ ~last.ok
    /\ Cardinality(Live(peoples)) >= 2

\* C20 (search never leaks index values): every record a search returns
\* belongs to a live row and carries the field values of that row, whatever
\* the index holds for its id.
C20_SearchReturnsRowValues ==
    (last.op = "search" /\ last.ok)
    => \A i \in 1..Len(last.out) :
           /\ last.out[i].id \in Live(peoples)
           /\ last.out[i] = to_people(peoples, last.out[i].id)

\* a search returned a record whose index entry holds another value
C20_Witness ==
    /\ last.op = "search" /\ last.ok
    /\ \E i \in 1..Len(last.out) :
           /\ last.out[i].id \in DOMAIN vs
           /\ vs[last.out[i].id] # peoples[last.out[i].id].name
           /\ last.out[i].name = peoples[last.out[i].id].name

\* C23 (blob removal by prefix), as claimed: after a delete that returned
\* with the object store answering every call, no key is left under
\* peoples/{id}/.
C23_PrefixRemoved ==
    (last.op = "delete" /\ last.ok /\ last.faults \cap {"obs_list", "obs"} = {})
    => KeysUnder(last.id) = {}

\* the index a call record is about, in the state it is evaluated in
IdxOf(op) == IF op \in {"vs.insert", "vs.update", "vs.upsert", "vs.delete"}
             THEN vs ELSE kw

\* the same index after the step
IdxNext(op) == IF op \in {"vs.insert", "vs.update", "vs.upsert", "vs.delete"}
               THEN vs' ELSE kw'

IdxWrites == {"vs.insert", "vs.update", "vs.upsert",
              "kw.insert", "kw.update", "kw.upsert"}

C22_IndexDeleteIdempotent ==
    [][(last'.op \in {"vs.delete", "kw.delete"} /\ last'.faults = {})
       => /\ last'.ok
          /\ IdxNext(last'.op) =
                Restrict(IdxOf(last'.op), DOMAIN IdxOf(last'.op) \ {last'.id})
          /\ last'.rows = 0 => IdxNext(last'.op) = IdxOf(last'.op)]_vars

\* a delete for an id without entry returned, another entry being there
C22_Witness ==
    /\ last.op \in {"vs.delete", "kw.delete"} /\ last.ok
    /\ last.rows = 0
    /\ IdxOf(last.op) # <<>>

\* C24 (delete is a soft delete), as claimed: after a successful delete of a
\* live record the row is still in the table, with deleted_at set and its
\* fields unchanged.
C24_RowKept ==
    [][(last'.op = "delete" /\ last'.ok /\ last'.id \in Live(customs))
       => /\ last'.id \in DOMAIN customs'
          /\ customs'[last'.id].deleted_at # NULL
          /\ customs'[last'.id].name = customs[last'.id].name]_vars

\* C25 (insert conflict): the INSERT of save for an id that has a row (live
\* or soft-deleted) fails with the conflict error and leaves the table as it
\* was; for an id without a row, the database accepting the commit, it
\* stores the row under that id with fresh timestamps, and a save that
\* meets no other failure returns that id.
C25_InsertConflict ==
    [][(last'.op = "save")
       => /\ (last'.id \in DOMAIN peoples)
             => /\ ~last'.ok /\ last'.err = "sql" /\ last'.ret = ""
                /\ peoples' = peoples
          /\ (last'.id \notin DOMAIN peoples /\ "sql" \notin last'.faults)
             => /\ peoples' = (last'.id :> NewRow(last'.val, now)) @@ peoples
                /\ last'.faults = {} => (last'.ok /\ last'.ret = last'.id)]_vars

\* a save hit the primary key of a row, the database being available
C25_Witness ==
    /\ last.op = "save" /\ ~last.ok /\ last.err = "sql" /\ last.faults = {}
    /\ last.id \in DOMAIN peoples
    /\ peoples[last.id].name # last.val

\* C26 (write ordering of save): every id with an index entry or a snapshot
\* has a row, live or soft-deleted; an index entry appears only together
\* with or after the row, a snapshot only together with the index entry.
C26_RowFirst ==
    /\ [](\A id \in Ids :
             (id \in DOMAIN vs \/ DetailPath(id) \in DOMAIN obs)
             => id \in DOMAIN peoples)
    /\ [][\A id \in Ids :
             /\ (id \in DOMAIN vs' /\ id \notin DOMAIN vs)
                => id \in Live(peoples')
             /\ (DetailPath(id) \in DOMAIN obs' /\ DetailPath(id) \notin DOMAIN obs)
                => (id \in DOMAIN vs' /\ id \in Live(peoples'))]_vars

\* a soft-deleted row whose snapshot and index entry are still there
C26_Witness ==
    \E id \in Ids :
        /\ id \in DOMAIN peoples \ Live(peoples)
        /\ id \in DOMAIN vs
        /\ DetailPath(id) \in DOMAIN obs

\* C27 (a failed save leaves no row), as claimed: a save that raises has
\* left the table as it was.
C27_FailedSaveLeavesNoRow ==
    [][(last'.op = "save" /\ ~last'.ok) => peoples' = peoples]_vars

\* C28 (shape of a search result): whatever list the index answers with,
\* repeated or unknown ids included, the result holds no record twice, only
\* live records whose id is in the list, and no more records than the list
\* has distinct ids.
C28_SearchShape ==
    (last.op = "search" /\ last.ok)
    => /\ Distinct(IdsOf(last.out))
       /\ OutIds(last.out) \subseteq (ToSet(last.ranked) \cap Live(peoples))
       /\ Len(last.out) <= Cardinality(ToSet(last.ranked))

\* the index answered with a live id twice and with an id without row
C28_Witness ==
    /\ last.op = "search" /\ last.ok
    /\ Len(last.ranked) = 3
    /\ last.ranked[1] = last.ranked[3]
    /\ last.ranked[1] \in Live(peoples)
    /\ last.ranked[2] \notin DOMAIN peoples
    /\ IdsOf(last.out) = <<last.ranked[1]>>

\* ------------------------------------------------------------ comments
\* add_comment returns success on no path: the append raises on the dict
\* that Custom.comments is by default, and json.dumps raises on the Comment
\* object the append left in a list
AddCommentNeverSucceeds ==
    \A p \in Callers : ~(calls[p].pc = "done" /\ calls[p].ok)

\* the user_ids of the stored comments of record id whose id is comment_id
OwnersOf(id, comment_id) ==
    LET items == customs[id].comments.items
    IN {items[i].user_id : i \in {j \in 1..Len(items) :
                                     /\ items[j].type # "str"
                                     /\ items[j].id = comment_id}}

CommentEdits == {"update_comment", "delete_comment"}

\* C30: update_comment and delete_comment called on a stored record for a
\* comment id that no stored comment has return MODEL_NOT_FOUND, called by
\* a user other than the comment's user_id they return PERMISSION_DENIED,
\* and in both cases the stored record is unchanged
C30_CommentAuthorship ==
    [][(last'.op \in CommentEdits /\ last' # last /\ rldb_get(last'.id))
        => IF OwnersOf(last'.id, last'.arg) = {}
           THEN last'.err = "MODEL_NOT_FOUND" /\ customs' = customs
           ELSE IF last'.val \notin OwnersOf(last'.id, last'.arg)
           THEN last'.err = "PERMISSION_DENIED" /\ customs' = customs
           ELSE TRUE]_vars

\* ------------------------------------------------------------ verification codes
CodeOps == {"register", "update_with_code"}

\* the scene whose codes an operation looks up
SceneOf(op) == IF op = "register" THEN "register" ELSE "update"

\* a step that is a call of register or update_*_with_code
CodeStep == now' = now /\ last'.op \in CodeOps /\ last'.val # ""

\* the stored rows that carry the code, target and scene of the call
Presented(call) ==
    {i \in 1..Len(codes) : /\ codes[i].code = call.arg
                           /\ codes[i].target = call.val
                           /\ codes[i].target_type \in call.among
                           /\ codes[i].scene = SceneOf(call.op)}

\* C31 as claimed: once a code is accepted (used_at set), every later call
\* presenting that code for the same target and scene is rejected with
\* 'invalid code'
C31_CodeSingleUse ==
    [][(CodeStep /\ \E i \in Presented(last') : codes[i].used_at # NULL)
        => last'.err = "invalid code"]_vars

\* C31 amended: once a code is accepted, a later call presenting it for the
\* same target and scene marks no code used and returns 'invalid code', or
\* 'user existed' from register for a registered target, unless another
\* stored row with the same digits for that target and scene is unused and
\* unexpired
C31_UsedCodeRejected ==
    [][(/\ CodeStep
        /\ \E i \in Presented(last') : codes[i].used_at # NULL
        /\ \A i \in Presented(last') : codes[i].used_at # NULL
                                        \/ codes[i].expires_at < now)
        => /\ last'.err \in {"invalid code", "user existed"}
           /\ codes' = codes]_vars

\* a call that presented a used code was answered 'invalid code'
C31_Witness ==
    /\ last.op \in CodeOps
    /\ last.err = "invalid code"
    /\ \E i \in Presented(last) : codes[i].used_at # NULL

\* the stored rows for the target and scene of the call, whatever their code
SentFor(call) ==
    {i \in 1..Len(codes) : /\ codes[i].target = call.val
                           /\ codes[i].target_type \in call.among
                           /\ codes[i].scene = SceneOf(call.op)}

\* the row send_code stored last among S
Latest(S) == CHOOSE i \in S : \A j \in S : j <= i

\* C32: a register or update_*_with_code call that presents the most
\* recently sent code for its target and scene, unexpired and unused, is not
\* turned down for its code, however many earlier codes are stored
C32_LatestCodeHonoured ==
    [][(/\ CodeStep
        /\ SentFor(last') # {}
        /\ LET vc == codes[Latest(SentFor(last'))]
           IN vc.code = last'.arg /\ vc.expires_at >= now /\ vc.used_at = NULL)
        => last'.err \notin {"invalid code", "code not found"}]_vars

\* C33: a register call that does not return success has created no user
\* row and has left the verification codes as they were
C33_RegisterAllOrNothing ==
    [][(CodeStep /\ last'.op = "register" /\ ~last'.ok)
        => users' = users /\ codes' = codes]_vars

\* no two users share a non-empty e-mail address or a non-empty phone number
UniqueIdentifiers ==
    \A u, w \in DOMAIN users :
        u # w => /\ (users[u].email # "" => users[u].email # users[w].email)
                 /\ (users[u].phone # "" => users[u].phone # users[w].phone)

\* a register call, with the database available, for a target whose stored
\* codes all carry the presented digits and are unused and unexpired, none
\* of whose non-empty identifiers a stored user has
FreeRegister ==
    /\ CodeStep /\ last'.op = "register" /\ last'.faults = {}
    /\ SentFor(last') # {}
    /\ \A i \in SentFor(last') : /\ codes[i].code = last'.arg
                                  /\ codes[i].used_at = NULL
                                  /\ codes[i].expires_at >= now
    /\ last'.err # "user existed"

\* C35: no two users share a non-empty e-mail or phone, and a register
\* call with a valid code whose non-empty identifiers no user has succeeds
C35_IdentifierUniqueness ==
    []UniqueIdentifiers /\ [][FreeRegister => last'.ok]_vars

\* ------------------------------------------------------------ sessions
\* a step that is a call of `op`
CallStep(op) == now' = now /\ last'.op = op

\* after logout(token) returned success the token stays revoked and
\* require_auth answers it with 401; logout changes no other token
RevokedRejected ==
    /\ \A k \in DOMAIN tokens : tokens[k].revoked =>
           /\ k \in DOMAIN tokens' /\ tokens'[k].revoked
           /\ (CallStep("require_auth") /\ last'.arg = k) => last'.err = "401"
    /\ (CallStep("logout") /\ last'.ok) =>
           /\ tokens'[last'.arg].revoked
           /\ \A k \in DOMAIN tokens \ {last'.arg} : tokens'[k] = tokens[k]

\* require_auth accepts a stored token that is neither revoked nor expired
\* and belongs to a stored user
LiveAccepted ==
    (/\ CallStep("require_auth")
     /\ last'.arg \in DOMAIN tokens
     /\ ~tokens[last'.arg].revoked
     /\ tokens[last'.arg].expired_at >= now
     /\ tokens[last'.arg].user_id \in DOMAIN users) => last'.ok

\* C34: after logout(token) returns success every later require_auth with
\* that token is rejected with 401, before logout a stored, unexpired token
\* of a live user is accepted, and tokens of other sessions are unaffected
C34_LogoutRevokes == [][RevokedRejected /\ LiveAccepted]_vars

\* the revocation half of C34 alone
C34_RevocationHalf == [][RevokedRejected]_vars

\* C37: after delete_user(u) returned success get(u) reports 'user not
\* found' and require_auth rejects every token issued to u with 401
C37_DeletedUserLockedOut ==
    /\ \A u \in deleted : u \notin DOMAIN users
    /\ (last.op = "get_user" /\ last.id \in deleted)
           => ~last.ok /\ last.err = "user not found"
    /\ (last.op = "require_auth" /\ last.id \in deleted) => last.err = "401"

\* require_auth turned down a token of a deleted user that is neither
\* revoked nor expired
C37_Witness ==
    /\ last.op = "require_auth" /\ last.err = "401"
    /\ last.arg \in DOMAIN tokens
    /\ tokens[last.arg].user_id \in deleted
    /\ ~tokens[last.arg].revoked
    /\ tokens[last.arg].expired_at >= now

\* ------------------------------------------------------------ web layer
WebUpdates == {"update_custom", "update_people"}
WebDeletes == {"delete_custom", "delete_people"}

\* the requesting user of the step's request owns the custom record it names
ByOwner ==
    /\ last'.op \in {"update_custom", "delete_custom"}
    /\ last'.id \in DOMAIN customs
    /\ customs[last'.id].user_id = last'.arg

\* the requesting user is in the organization of the record's owner
ByOrgMember ==
    /\ last'.op \in {"update_custom", "delete_custom"}
    /\ last'.id \in DOMAIN customs
    /\ \E org \in last'.among :
          org # "" /\ owner_org_id(customs[last'.id].user_id) = org

====
